---- MODULE Spec2Model ----
(***************************************************************************)
(* PCA9685 16-channel 12-bit PWM driver (src/src/pca9685.cpp).             *)
(*                                                                         *)
(* The driver keeps no state of its own: everything lives in the chip's    *)
(* registers, reached through the byte and word primitives of the I2C      *)
(* layer.  The model holds the chip's register file, and for every caller  *)
(* the position inside the driver function it is executing, one step per   *)
(* bus transaction, together with the transactions the call has issued.    *)
(***************************************************************************)
EXTENDS Integers, Sequences, FiniteSets, TLC

VARIABLES
    regs,   \* the chip's register file: register address -> byte
    pc,     \* per caller: "idle" or the next statement of the running call
    call,   \* per caller: the call being executed (or the last one completed)
    prev,   \* per caller: the call completed before `call`
    loc,    \* per caller: the locals of the running driver function(s)
    bus,    \* per caller: the bus transactions and delays issued by `call`
    out,    \* per caller: what `call` handed back (return value, *on, *off)
    ncalls  \* number of calls started so far

vars == <<regs, pc, call, prev, loc, bus, out, ncalls>>

(***************************************************************************)
(* Register map and pin sentinel (#defines).                               *)
(***************************************************************************)
PCA9685_MODE1 == 0
PCA9685_PRESCALE == 254
LED0_ON_L == 6
LEDALL_ON_L == 250
PIN_ALL == 16

(***************************************************************************)
(* Bounds of the model.                                                    *)
(***************************************************************************)
MaxCalls == 2

Callers == {1, 2}

\* The pins, tick values, flags and frequencies the callers pass, and which
\* of pca9685PWMRead's two pointers they give.
Pins == {0, 15, 16}
TickPairs == {<<4660, 8191>>, <<-1, 4096>>}
Flags == {0, 1}
FreqInputs == {-7, 0, 40, 41, 50, 999, 1000, 1001}
ReadWants == {<<TRUE, TRUE>>, <<TRUE, FALSE>>, <<FALSE, TRUE>>, <<FALSE, FALSE>>}

\* The chip states the driver may find: <<MODE1, PRESCALE, on word, off word>>,
\* every channel holding the same two words.  The first is the chip's state
\* after power-on.
InitChips ==
    {<<17, 30, 0, 4096>>, <<161, 121, 4096, 0>>,
     <<206, 3, 8191, 6844>>, <<48, 255, 291, 1110>>}

(***************************************************************************)
(* C integer operators.  & and | on two's complement ints: a % 2 is the    *)
(* low bit and a \div 2 (rounding down) the arithmetic shift, for negative *)
(* values too; the shifts end in 0 (all bits clear) or -1 (all bits set).  *)
(***************************************************************************)
RECURSIVE IntAnd(_, _)
IntAnd(a, b) ==
    IF a = 0 \/ b = 0 THEN 0
    ELSE IF a = -1 THEN b
    ELSE IF b = -1 THEN a
    ELSE (a % 2) * (b % 2) + 2 * IntAnd(a \div 2, b \div 2)

RECURSIVE IntOr(_, _)
IntOr(a, b) ==
    IF a = 0 THEN b
    ELSE IF b = 0 THEN a
    ELSE IF a = -1 \/ b = -1 THEN -1
    ELSE (IF (a % 2) + (b % 2) > 0 THEN 1 ELSE 0) + 2 * IntOr(a \div 2, b \div 2)

\* (int) of the rational n / d, d > 0: truncation toward zero
TruncDiv(n, d) == IF n >= 0 THEN n \div d ELSE -((-n) \div d)

(***************************************************************************)
(* baseReg: the first register of a pin's block.                           *)
(***************************************************************************)
\* baseReg taking pin 16 for a channel of its own
baseRegOffByOne(pin) == IF pin > PIN_ALL THEN LEDALL_ON_L ELSE LED0_ON_L + 4 * pin

baseReg(pin) == IF pin >= PIN_ALL THEN LEDALL_ON_L ELSE LED0_ON_L + 4 * pin

(***************************************************************************)
(* pca9685PWMFreq, lines 74 and 79: the cap and the prescale value.        *)
(* Frequencies are whole Hertz here; for those 4096 * freq, the quotient   *)
(* and the difference are computed by float arithmetic without a rounding  *)
(* that crosses an integer, so the result is the truncated exact value     *)
(* 25000000 / (4096 * freq) - 1/2 = (50000000 - 4096 * freq) / (8192 *     *)
(* freq).                                                                  *)
(***************************************************************************)
\* CapFreq without the upper cap
CapFreqNoUpper(freq) == IF freq < 40 THEN 40 ELSE freq

CapFreq(freq) == IF freq > 1000 THEN 1000 ELSE (IF freq < 40 THEN 40 ELSE freq)

\* PrescaleOf without the - 0.5f
PrescaleOfNoBias(freq) == TruncDiv(25000000, 4096 * freq)

PrescaleOf(freq) == TruncDiv(50000000 - 4096 * freq, 8192 * freq)

\* freq is a float, and it may be a NaN.  Both comparisons of line 74 are
\* false for a NaN, so it passes the cap unchanged, and line 79 converts a
\* NaN to int: undefined behaviour.  The conversion instruction yields 0 on
\* ARM and INT_MIN on x86.
NaNToInt == {0, -2147483647 - 1}

(***************************************************************************)
(* The chip behind the I2C primitives.  Registers 6..69 are the sixteen    *)
(* four-byte channel blocks; a write to the ALL_LED block 250..253 lands   *)
(* in the same byte of every channel, and the block reads as 0.            *)
(***************************************************************************)
LedRegs == LED0_ON_L .. (LED0_ON_L + 4 * PIN_ALL - 1)

AllLedRegs == LEDALL_ON_L .. (LEDALL_ON_L + 3)

ChipRegs == {PCA9685_MODE1, PCA9685_PRESCALE} \cup LedRegs

ChipRead(r, reg) == IF reg \in ChipRegs THEN r[reg] ELSE 0

ChipWrite(r, reg, val) ==
    IF reg \in AllLedRegs
    THEN [x \in ChipRegs |->
            IF x \in LedRegs /\ (x - LED0_ON_L) % 4 = reg - LEDALL_ON_L
            THEN val ELSE r[x]]
    ELSE IF reg \in ChipRegs THEN [r EXCEPT ![reg] = val]
    ELSE r

i2cReadByteData(r, reg) == ChipRead(r, reg)

\* bVal is unsigned; pigpio sends nothing (PI_BAD_PARAM) when it exceeds 0xFF
i2cWriteByteData(r, reg, bVal) ==
    IF bVal \in 0 .. 255 THEN ChipWrite(r, reg, bVal) ELSE r

\* SMBus words are little-endian: low byte at reg, high byte at reg + 1
i2cReadWordData(r, reg) == ChipRead(r, reg) + 256 * ChipRead(r, reg + 1)

i2cWriteWordData(r, reg, wVal) ==
    ChipWrite(ChipWrite(r, reg, wVal % 256), reg + 1, wVal \div 256)

\* The word a channel's on (which = 0) or off (which = 1) registers hold.
LedWord(r, ch, which) == i2cReadWordData(r, baseReg(ch) + 2 * which)

(***************************************************************************)
(* Calls, locals and results.                                              *)
(***************************************************************************)
NoCall ==
    [op |-> "none", pin |-> 0, on |-> 0, off |-> 0, tf |-> 0, freq |-> 0,
     nan |-> FALSE, wantOn |-> FALSE, wantOff |-> FALSE]

NoLoc ==
    [freq |-> 0, nan |-> FALSE, prescale |-> 0, settings |-> 0, autoInc |-> 0, sleep |-> 0,
     wake |-> 0, restart |-> 0, reg |-> 0, state |-> 0, tf |-> 0]

\* ret: the value returned; on, off: what was stored through the pointers.
\* <<>> stands for "nothing returned / nothing stored".
NoOut == [ret |-> <<>>, on |-> <<>>, off |-> <<>>]

\* The register file of the chip state c of InitChips.
InitRegs(c) ==
    [x \in ChipRegs |->
        IF x = PCA9685_MODE1 THEN c[1]
        ELSE IF x = PCA9685_PRESCALE THEN c[2]
        ELSE IF (x - LED0_ON_L) % 4 = 0 THEN c[3] % 256
        ELSE IF (x - LED0_ON_L) % 4 = 1 THEN c[3] \div 256
        ELSE IF (x - LED0_ON_L) % 4 = 2 THEN c[4] % 256
        ELSE c[4] \div 256]

Init ==
    /\ \E c \in InitChips : regs = InitRegs(c)
    /\ pc = [p \in Callers |-> "idle"]
    /\ call = [p \in Callers |-> NoCall]
    /\ prev = [p \in Callers |-> NoCall]
    /\ loc = [p \in Callers |-> NoLoc]
    /\ bus = [p \in Callers |-> <<>>]
    /\ out = [p \in Callers |-> NoOut]
    /\ ncalls = 0

\* Caller p is at `label`; it moves on to `next`; it issues transaction t.
At(p, label) == pc[p] = label

Goto(p, next) == pc' = [pc EXCEPT ![p] = next]

Issue(p, t) == bus' = [bus EXCEPT ![p] = Append(@, t)]

\* Caller p, idle, enters a driver function with the arguments in c, the
\* locals l and `label` its first statement.
Enter(p, c, l, label) ==
    /\ ncalls < MaxCalls
    /\ ncalls' = ncalls + 1
    /\ prev' = [prev EXCEPT ![p] = call[p]]
    /\ call' = [call EXCEPT ![p] = c]
    /\ loc' = [loc EXCEPT ![p] = l]
    /\ bus' = [bus EXCEPT ![p] = <<>>]
    /\ out' = [out EXCEPT ![p] = NoOut]
    /\ pc' = [pc EXCEPT ![p] = label]
    /\ UNCHANGED regs

(***************************************************************************)
(* pca9685PWMFreq(fd, freq)                                                *)
(***************************************************************************)
\* lines 74 and 79: the locals on entry
PWMFreqEntry(l, freq) ==
    [l EXCEPT !.freq = CapFreq(freq), !.prescale = PrescaleOf(CapFreq(freq))]

\* lines 74 and 79 for a NaN: the locals on entry, one for each outcome of
\* the conversion
PWMFreqEntryNaN(l) ==
    {[l EXCEPT !.nan = TRUE, !.prescale = v] : v \in NaNToInt}

\* The function's last statement has run: back to the caller of the driver.
\* pca9685Setup then returns 1 (line 64); pca9685PWMFreq is void.
PWMFreqReturn(p) ==
    /\ Goto(p, "idle")
    /\ out' = [out EXCEPT ![p].ret = IF call[p].op = "Setup" THEN <<1>> ELSE <<>>]

pca9685PWMFreq_Call(p) ==
    /\ At(p, "idle")
    /\ \E freq \in FreqInputs :
           Enter(p, [NoCall EXCEPT !.op = "PWMFreq", !.freq = freq],
                 PWMFreqEntry(NoLoc, freq), "freq_read")

\* pca9685PWMFreq_Read with wake = settings ^ 0x10 for settings & 0xEF
pca9685PWMFreq_ReadXorWake(p) ==
    /\ At(p, "freq_read")
    /\ LET v == i2cReadByteData(regs, PCA9685_MODE1)
           settings == IntAnd(v, 127)
           wake == IF IntAnd(settings, 16) = 0 THEN settings + 16
                   ELSE settings - 16
       IN /\ loc' = [loc EXCEPT ![p].settings = settings,
                                ![p].sleep = IntOr(settings, 16),
                                ![p].wake = wake,
                                ![p].restart = IntOr(wake, 128)]
          /\ Issue(p, <<"rb", PCA9685_MODE1, v>>)
    /\ Goto(p, "freq_sleep")
    /\ UNCHANGED <<regs, call, prev, out, ncalls>>

\* pca9685PWMFreq_Read masking with 0x5F instead of 0x7F
pca9685PWMFreq_ReadWrongMask(p) ==
    /\ At(p, "freq_read")
    /\ LET v == i2cReadByteData(regs, PCA9685_MODE1)
           settings == IntAnd(v, 95)
           wake == IntAnd(settings, 239)
       IN /\ loc' = [loc EXCEPT ![p].settings = settings,
                                ![p].sleep = IntOr(settings, 16),
                                ![p].wake = wake,
                                ![p].restart = IntOr(wake, 128)]
          /\ Issue(p, <<"rb", PCA9685_MODE1, v>>)
    /\ Goto(p, "freq_sleep")
    /\ UNCHANGED <<regs, call, prev, out, ncalls>>

\* lines 82-85
pca9685PWMFreq_Read(p) ==
    /\ At(p, "freq_read")
    /\ LET v == i2cReadByteData(regs, PCA9685_MODE1)
           settings == IntAnd(v, 127)
           wake == IntAnd(settings, 239)
       IN /\ loc' = [loc EXCEPT ![p].settings = settings,
                                ![p].sleep = IntOr(settings, 16),
                                ![p].wake = wake,
                                ![p].restart = IntOr(wake, 128)]
          /\ Issue(p, <<"rb", PCA9685_MODE1, v>>)
    /\ Goto(p, "freq_sleep")
    /\ UNCHANGED <<regs, call, prev, out, ncalls>>

\* pca9685PWMFreq_Sleep writing the wake value
pca9685PWMFreq_SleepWritesWake(p) ==
    /\ At(p, "freq_sleep")
    /\ regs' = i2cWriteByteData(regs, PCA9685_MODE1, loc[p].wake)
    /\ Issue(p, <<"wb", PCA9685_MODE1, loc[p].wake>>)
    /\ Goto(p, "freq_prescale")
    /\ UNCHANGED <<call, prev, loc, out, ncalls>>

\* line 88
pca9685PWMFreq_Sleep(p) ==
    /\ At(p, "freq_sleep")
    /\ regs' = i2cWriteByteData(regs, PCA9685_MODE1, loc[p].sleep)
    /\ Issue(p, <<"wb", PCA9685_MODE1, loc[p].sleep>>)
    /\ Goto(p, "freq_prescale")
    /\ UNCHANGED <<call, prev, loc, out, ncalls>>

\* line 89
pca9685PWMFreq_Prescale(p) ==
    /\ At(p, "freq_prescale")
    /\ regs' = i2cWriteByteData(regs, PCA9685_PRESCALE, loc[p].prescale)
    /\ Issue(p, <<"wb", PCA9685_PRESCALE, loc[p].prescale>>)
    /\ Goto(p, "freq_wake")
    /\ UNCHANGED <<call, prev, loc, out, ncalls>>

\* pca9685PWMFreq_Wake with the usleep of line 93 left out
pca9685PWMFreq_WakeNoDelay(p) ==
    /\ At(p, "freq_wake")
    /\ regs' = i2cWriteByteData(regs, PCA9685_MODE1, loc[p].wake)
    /\ Issue(p, <<"wb", PCA9685_MODE1, loc[p].wake>>)
    /\ Goto(p, "freq_restart")
    /\ UNCHANGED <<call, prev, loc, out, ncalls>>

\* line 90
pca9685PWMFreq_Wake(p) ==
    /\ At(p, "freq_wake")
    /\ regs' = i2cWriteByteData(regs, PCA9685_MODE1, loc[p].wake)
    /\ Issue(p, <<"wb", PCA9685_MODE1, loc[p].wake>>)
    /\ Goto(p, "freq_usleep")
    /\ UNCHANGED <<call, prev, loc, out, ncalls>>

\* line 93
pca9685PWMFreq_Usleep(p) ==
    /\ At(p, "freq_usleep")
    /\ Issue(p, <<"usleep", 1000>>)
    /\ Goto(p, "freq_restart")
    /\ UNCHANGED <<regs, call, prev, loc, out, ncalls>>

\* line 94, and the return
pca9685PWMFreq_Restart(p) ==
    /\ At(p, "freq_restart")
    /\ regs' = i2cWriteByteData(regs, PCA9685_MODE1, loc[p].restart)
    /\ Issue(p, <<"wb", PCA9685_MODE1, loc[p].restart>>)
    /\ PWMFreqReturn(p)
    /\ UNCHANGED <<call, prev, loc, ncalls>>

(***************************************************************************)
(* pca9685Setup(handle, freq)                                              *)
(***************************************************************************)
pca9685Setup_Call(p) ==
    /\ At(p, "idle")
    /\ \E freq \in FreqInputs :
           Enter(p, [NoCall EXCEPT !.op = "Setup", !.freq = freq], NoLoc,
                 "setup_read")

\* pca9685Setup_Read setting bit 4 (0x10) instead of bit 5 (0x20)
pca9685Setup_ReadWrongBit(p) ==
    /\ At(p, "setup_read")
    /\ LET v == i2cReadByteData(regs, PCA9685_MODE1)
           settings == IntAnd(v, 127)
       IN /\ loc' = [loc EXCEPT ![p].settings = settings,
                                ![p].autoInc = IntOr(settings, 16)]
          /\ Issue(p, <<"rb", PCA9685_MODE1, v>>)
    /\ Goto(p, "setup_write")
    /\ UNCHANGED <<regs, call, prev, out, ncalls>>

\* lines 55-56
pca9685Setup_Read(p) ==
    /\ At(p, "setup_read")
    /\ LET v == i2cReadByteData(regs, PCA9685_MODE1)
           settings == IntAnd(v, 127)
       IN /\ loc' = [loc EXCEPT ![p].settings = settings,
                                ![p].autoInc = IntOr(settings, 32)]
          /\ Issue(p, <<"rb", PCA9685_MODE1, v>>)
    /\ Goto(p, "setup_write")
    /\ UNCHANGED <<regs, call, prev, out, ncalls>>

\* pca9685Setup_Write testing freq >= 0 instead of freq > 0
pca9685Setup_WriteFromZero(p) ==
    /\ At(p, "setup_write")
    /\ regs' = i2cWriteByteData(regs, PCA9685_MODE1, loc[p].autoInc)
    /\ Issue(p, <<"wb", PCA9685_MODE1, loc[p].autoInc>>)
    /\ IF call[p].freq >= 0
       THEN /\ loc' = [loc EXCEPT ![p] = PWMFreqEntry(NoLoc, call[p].freq)]
            /\ Goto(p, "freq_read")
            /\ UNCHANGED out
       ELSE /\ Goto(p, "idle")
            /\ out' = [out EXCEPT ![p].ret = <<1>>]
            /\ UNCHANGED loc
    /\ UNCHANGED <<call, prev, ncalls>>

\* lines 58-64: the write; then either the call of pca9685PWMFreq (whose
\* entry is taken here) or the return of 1
pca9685Setup_Write(p) ==
    /\ At(p, "setup_write")
    /\ regs' = i2cWriteByteData(regs, PCA9685_MODE1, loc[p].autoInc)
    /\ Issue(p, <<"wb", PCA9685_MODE1, loc[p].autoInc>>)
    /\ IF call[p].freq > 0
       THEN /\ loc' = [loc EXCEPT ![p] = PWMFreqEntry(NoLoc, call[p].freq)]
            /\ Goto(p, "freq_read")
            /\ UNCHANGED out
       ELSE /\ Goto(p, "idle")
            /\ out' = [out EXCEPT ![p].ret = <<1>>]
            /\ UNCHANGED loc
    /\ UNCHANGED <<call, prev, ncalls>>

(***************************************************************************)
(* pca9685PWMReset(fd)                                                     *)
(***************************************************************************)
pca9685PWMReset_Call(p) ==
    /\ At(p, "idle")
    /\ Enter(p, [NoCall EXCEPT !.op = "PWMReset"], NoLoc, "reset_on")

\* line 102
pca9685PWMReset_On(p) ==
    /\ At(p, "reset_on")
    /\ regs' = i2cWriteWordData(regs, LEDALL_ON_L, 0)
    /\ Issue(p, <<"ww", LEDALL_ON_L, 0>>)
    /\ Goto(p, "reset_off")
    /\ UNCHANGED <<call, prev, loc, out, ncalls>>

\* pca9685PWMReset_Off writing 0x0 instead of 0x1000
pca9685PWMReset_OffZero(p) ==
    /\ At(p, "reset_off")
    /\ regs' = i2cWriteWordData(regs, LEDALL_ON_L + 2, 0)
    /\ Issue(p, <<"ww", LEDALL_ON_L + 2, 0>>)
    /\ Goto(p, "idle")
    /\ UNCHANGED <<call, prev, loc, out, ncalls>>

\* line 103, and the return
pca9685PWMReset_Off(p) ==
    /\ At(p, "reset_off")
    /\ regs' = i2cWriteWordData(regs, LEDALL_ON_L + 2, 4096)
    /\ Issue(p, <<"ww", LEDALL_ON_L + 2, 4096>>)
    /\ Goto(p, "idle")
    /\ UNCHANGED <<call, prev, loc, out, ncalls>>

(***************************************************************************)
(* pca9685PWMWrite(fd, pin, on, off)                                       *)
(***************************************************************************)
\* line 112
pca9685PWMWrite_Call(p) ==
    /\ At(p, "idle")
    /\ \E pin \in Pins, t \in TickPairs :
           Enter(p, [NoCall EXCEPT !.op = "PWMWrite", !.pin = pin,
                                   !.on = t[1], !.off = t[2]],
                 [NoLoc EXCEPT !.reg = baseReg(pin)], "write_on")

\* line 115
pca9685PWMWrite_On(p) ==
    /\ At(p, "write_on")
    /\ LET w == IntAnd(call[p].on, 4095)
       IN /\ regs' = i2cWriteWordData(regs, loc[p].reg, w)
          /\ Issue(p, <<"ww", loc[p].reg, w>>)
    /\ Goto(p, "write_off")
    /\ UNCHANGED <<call, prev, loc, out, ncalls>>

\* pca9685PWMWrite_Off writing at reg + 4, the next block
pca9685PWMWrite_OffNextBlock(p) ==
    /\ At(p, "write_off")
    /\ LET w == IntAnd(call[p].off, 4095)
       IN /\ regs' = i2cWriteWordData(regs, loc[p].reg + 4, w)
          /\ Issue(p, <<"ww", loc[p].reg + 4, w>>)
    /\ Goto(p, "idle")
    /\ UNCHANGED <<call, prev, loc, out, ncalls>>

\* pca9685PWMWrite_Off masking with 0x1FFF instead of 0x0FFF
pca9685PWMWrite_OffWideMask(p) ==
    /\ At(p, "write_off")
    /\ LET w == IntAnd(call[p].off, 8191)
       IN /\ regs' = i2cWriteWordData(regs, loc[p].reg + 2, w)
          /\ Issue(p, <<"ww", loc[p].reg + 2, w>>)
    /\ Goto(p, "idle")
    /\ UNCHANGED <<call, prev, loc, out, ncalls>>

\* line 116, and the return
pca9685PWMWrite_Off(p) ==
    /\ At(p, "write_off")
    /\ LET w == IntAnd(call[p].off, 4095)
       IN /\ regs' = i2cWriteWordData(regs, loc[p].reg + 2, w)
          /\ Issue(p, <<"ww", loc[p].reg + 2, w>>)
    /\ Goto(p, "idle")
    /\ UNCHANGED <<call, prev, loc, out, ncalls>>

(***************************************************************************)
(* pca9685PWMRead(fd, pin, on, off); wantOn, wantOff: the pointer is given *)
(***************************************************************************)
\* line 127
pca9685PWMRead_Call(p) ==
    /\ At(p, "idle")
    /\ \E pin \in Pins, w \in ReadWants :
           Enter(p, [NoCall EXCEPT !.op = "PWMRead", !.pin = pin,
                                   !.wantOn = w[1], !.wantOff = w[2]],
                 [NoLoc EXCEPT !.reg = baseReg(pin)], "read_on")

\* lines 129-130
pca9685PWMRead_On(p) ==
    /\ At(p, "read_on")
    /\ IF call[p].wantOn
       THEN LET w == i2cReadWordData(regs, loc[p].reg)
            IN /\ out' = [out EXCEPT ![p].on = <<w>>]
               /\ Issue(p, <<"rw", loc[p].reg, w>>)
       ELSE UNCHANGED <<out, bus>>
    /\ Goto(p, "read_off")
    /\ UNCHANGED <<regs, call, prev, loc, ncalls>>

\* lines 131-132, and the return
pca9685PWMRead_Off(p) ==
    /\ At(p, "read_off")
    /\ IF call[p].wantOff
       THEN LET w == i2cReadWordData(regs, loc[p].reg + 2)
            IN /\ out' = [out EXCEPT ![p].off = <<w>>]
               /\ Issue(p, <<"rw", loc[p].reg + 2, w>>)
       ELSE UNCHANGED <<out, bus>>
    /\ Goto(p, "idle")
    /\ UNCHANGED <<regs, call, prev, loc, ncalls>>

(***************************************************************************)
(* pca9685FullOff(fd, pin, tf)                                             *)
(***************************************************************************)
\* line 162: the locals on entry
FullOffEntry(pin, tf) == [NoLoc EXCEPT !.reg = baseReg(pin) + 3, !.tf = tf]

\* SetBit4 clearing with 0xE0 instead of 0xEF
SetBit4WideClear(state, tf) ==
    IF tf # 0 THEN IntOr(state, 16) ELSE IntAnd(state, 224)

\* SetBit4 ignoring tf
SetBit4Always(state, tf) == IntOr(state, 16)

\* line 166 (and 146): bit 4 set or cleared according to tf
SetBit4(state, tf) == IF tf # 0 THEN IntOr(state, 16) ELSE IntAnd(state, 239)

pca9685FullOff_Call(p) ==
    /\ At(p, "idle")
    /\ \E pin \in Pins, tf \in Flags :
           Enter(p, [NoCall EXCEPT !.op = "FullOff", !.pin = pin, !.tf = tf],
                 FullOffEntry(pin, tf), "off_read")

\* lines 163-166
pca9685FullOff_Read(p) ==
    /\ At(p, "off_read")
    /\ LET v == i2cReadByteData(regs, loc[p].reg)
       IN /\ loc' = [loc EXCEPT ![p].state = SetBit4(v, loc[p].tf)]
          /\ Issue(p, <<"rb", loc[p].reg, v>>)
    /\ Goto(p, "off_write")
    /\ UNCHANGED <<regs, call, prev, out, ncalls>>

\* line 168, and the return (to the caller, or through pca9685FullOn)
pca9685FullOff_Write(p) ==
    /\ At(p, "off_write")
    /\ regs' = i2cWriteByteData(regs, loc[p].reg, loc[p].state)
    /\ Issue(p, <<"wb", loc[p].reg, loc[p].state>>)
    /\ Goto(p, "idle")
    /\ UNCHANGED <<call, prev, loc, out, ncalls>>

(***************************************************************************)
(* pca9685FullOn(fd, pin, tf)                                              *)
(***************************************************************************)
\* line 142
pca9685FullOn_Call(p) ==
    /\ At(p, "idle")
    /\ \E pin \in Pins, tf \in Flags :
           Enter(p, [NoCall EXCEPT !.op = "FullOn", !.pin = pin, !.tf = tf],
                 [NoLoc EXCEPT !.reg = baseReg(pin) + 1, !.tf = tf], "on_read")

\* lines 143-146
pca9685FullOn_Read(p) ==
    /\ At(p, "on_read")
    /\ LET v == i2cReadByteData(regs, loc[p].reg)
       IN /\ loc' = [loc EXCEPT ![p].state = SetBit4(v, loc[p].tf)]
          /\ Issue(p, <<"rb", loc[p].reg, v>>)
    /\ Goto(p, "on_write")
    /\ UNCHANGED <<regs, call, prev, out, ncalls>>

\* pca9685FullOn_Write without the call of pca9685FullOff
pca9685FullOn_WriteOnly(p) ==
    /\ At(p, "on_write")
    /\ regs' = i2cWriteByteData(regs, loc[p].reg, loc[p].state)
    /\ Issue(p, <<"wb", loc[p].reg, loc[p].state>>)
    /\ Goto(p, "idle")
    /\ UNCHANGED <<call, prev, loc, out, ncalls>>

\* lines 148-152: the write; then either the call pca9685FullOff(fd, pin, 0)
\* (whose entry is taken here) or the return
pca9685FullOn_Write(p) ==
    /\ At(p, "on_write")
    /\ regs' = i2cWriteByteData(regs, loc[p].reg, loc[p].state)
    /\ Issue(p, <<"wb", loc[p].reg, loc[p].state>>)
    /\ IF loc[p].tf # 0
       THEN /\ loc' = [loc EXCEPT ![p] = FullOffEntry(call[p].pin, 0)]
            /\ Goto(p, "off_read")
       ELSE /\ Goto(p, "idle")
            /\ UNCHANGED loc
    /\ UNCHANGED <<call, prev, out, ncalls>>

(***************************************************************************)
(* The output of a channel: full-off has priority over full-on (line 150), *)
(* and without either flag the output follows the on/off ticks.            *)
(***************************************************************************)
EffectiveOutput(r, ch) ==
    IF IntAnd(LedWord(r, ch, 1), 4096) # 0 THEN "off"
    ELSE IF IntAnd(LedWord(r, ch, 0), 4096) # 0 THEN "on"
    ELSE "pwm"

(***************************************************************************)
(* One caller using the driver, one call after the other.                  *)
(***************************************************************************)
Step(p) ==
    \/ pca9685Setup_Call(p)
    \/ pca9685Setup_Read(p)
    \/ pca9685Setup_Write(p)
    \/ pca9685PWMFreq_Call(p)
    \/ pca9685PWMFreq_Read(p)
    \/ pca9685PWMFreq_Sleep(p)
    \/ pca9685PWMFreq_Prescale(p)
    \/ pca9685PWMFreq_Wake(p)
    \/ pca9685PWMFreq_Usleep(p)
    \/ pca9685PWMFreq_Restart(p)
    \/ pca9685PWMReset_Call(p)
    \/ pca9685PWMReset_On(p)
    \/ pca9685PWMReset_Off(p)
    \/ pca9685PWMWrite_Call(p)
    \/ pca9685PWMWrite_On(p)
    \/ pca9685PWMWrite_Off(p)
    \/ pca9685PWMRead_Call(p)
    \/ pca9685PWMRead_On(p)
    \/ pca9685PWMRead_Off(p)
    \/ pca9685FullOn_Call(p)
    \/ pca9685FullOn_Read(p)
    \/ pca9685FullOn_Write(p)
    \/ pca9685FullOff_Call(p)
    \/ pca9685FullOff_Read(p)
    \/ pca9685FullOff_Write(p)

Next == Step(1)

Spec == Init /\ [][Next]_vars

(***************************************************************************)
(* One call on any pin.  Caller 1 has entered a driver function that takes *)
(* a pin (or pca9685PWMReset), with any pin 0..PIN_ALL, and the function   *)
(* runs to its return.                                                     *)
(***************************************************************************)
AllPins == 0 .. PIN_ALL

\* Caller 1 has entered a function with the arguments in c, the locals l
\* and `label` its first statement; the other callers are idle.
Entered(c, l, label) ==
    /\ pc = [p \in Callers |-> IF p = 1 THEN label ELSE "idle"]
    /\ call = [p \in Callers |-> IF p = 1 THEN c ELSE NoCall]
    /\ loc = [p \in Callers |-> IF p = 1 THEN l ELSE NoLoc]
    /\ prev = [p \in Callers |-> NoCall]
    /\ bus = [p \in Callers |-> <<>>]
    /\ out = [p \in Callers |-> NoOut]
    /\ ncalls = 1

InitPins ==
    /\ \E c \in InitChips : regs = InitRegs(c)
    /\ \E pin \in AllPins :
          \/ \E t \in TickPairs :
                Entered([NoCall EXCEPT !.op = "PWMWrite", !.pin = pin,
                                       !.on = t[1], !.off = t[2]],
                        [NoLoc EXCEPT !.reg = baseReg(pin)], "write_on")
          \/ \E w \in ReadWants :
                Entered([NoCall EXCEPT !.op = "PWMRead", !.pin = pin,
                                       !.wantOn = w[1], !.wantOff = w[2]],
                        [NoLoc EXCEPT !.reg = baseReg(pin)], "read_on")
          \/ \E tf \in Flags :
                Entered([NoCall EXCEPT !.op = "FullOn", !.pin = pin, !.tf = tf],
                        [NoLoc EXCEPT !.reg = baseReg(pin) + 1, !.tf = tf],
                        "on_read")
          \/ \E tf \in Flags :
                Entered([NoCall EXCEPT !.op = "FullOff", !.pin = pin, !.tf = tf],
                        FullOffEntry(pin, tf), "off_read")
          \/ Entered([NoCall EXCEPT !.op = "PWMReset"], NoLoc, "reset_on")

NextPins ==
    \/ pca9685PWMReset_On(1)
    \/ pca9685PWMReset_Off(1)
    \/ pca9685PWMWrite_On(1)
    \/ pca9685PWMWrite_Off(1)
    \/ pca9685PWMRead_On(1)
    \/ pca9685PWMRead_Off(1)
    \/ pca9685FullOn_Read(1)
    \/ pca9685FullOn_Write(1)
    \/ pca9685FullOff_Read(1)
    \/ pca9685FullOff_Write(1)

SpecPins == InitPins /\ [][NextPins]_vars

(***************************************************************************)
(* Transport failures.  A byte read that fails returns a negative error    *)
(* code in place of the byte; a byte write that fails returns one and      *)
(* leaves the register as it was.  The driver looks at neither: it uses    *)
(* the code as if it were the byte (lines 55, 82) and drops the writes'    *)
(* results (lines 58, 88-90, 94), so after a failure it goes on with the   *)
(* next statement.                                                         *)
(***************************************************************************)
MaxFaults == 1

\* PI_I2C_READ_FAILED, PI_BAD_HANDLE
ReadErrors == {-83, -25}

\* A transaction of a bus trace that failed.
Failed(t) == t[1] = "wb_failed" \/ (t[1] = "rb" /\ t[3] < 0)

Faults(p) == Cardinality({i \in 1 .. Len(bus[p]) : Failed(bus[p][i])})

CanFail(p) == Faults(p) < MaxFaults

\* line 55, the read failing
pca9685Setup_ReadFails(p) ==
    /\ At(p, "setup_read")
    /\ CanFail(p)
    /\ \E v \in ReadErrors :
          LET settings == IntAnd(v, 127)
          IN /\ loc' = [loc EXCEPT ![p].settings = settings,
                                   ![p].autoInc = IntOr(settings, 32)]
             /\ Issue(p, <<"rb", PCA9685_MODE1, v>>)
    /\ Goto(p, "setup_write")
    /\ UNCHANGED <<regs, call, prev, out, ncalls>>

\* lines 58-64, the write failing
pca9685Setup_WriteFails(p) ==
    /\ At(p, "setup_write")
    /\ CanFail(p)
    /\ Issue(p, <<"wb_failed", PCA9685_MODE1, loc[p].autoInc>>)
    /\ IF call[p].freq > 0
       THEN /\ loc' = [loc EXCEPT ![p] = PWMFreqEntry(NoLoc, call[p].freq)]
            /\ Goto(p, "freq_read")
            /\ UNCHANGED out
       ELSE /\ Goto(p, "idle")
            /\ out' = [out EXCEPT ![p].ret = <<1>>]
            /\ UNCHANGED loc
    /\ UNCHANGED <<regs, call, prev, ncalls>>

\* lines 82-85, the read failing
pca9685PWMFreq_ReadFails(p) ==
    /\ At(p, "freq_read")
    /\ CanFail(p)
    /\ \E v \in ReadErrors :
          LET settings == IntAnd(v, 127)
              wake == IntAnd(settings, 239)
          IN /\ loc' = [loc EXCEPT ![p].settings = settings,
                                   ![p].sleep = IntOr(settings, 16),
                                   ![p].wake = wake,
                                   ![p].restart = IntOr(wake, 128)]
             /\ Issue(p, <<"rb", PCA9685_MODE1, v>>)
    /\ Goto(p, "freq_sleep")
    /\ UNCHANGED <<regs, call, prev, out, ncalls>>

\* line 88, the write failing
pca9685PWMFreq_SleepFails(p) ==
    /\ At(p, "freq_sleep")
    /\ CanFail(p)
    /\ Issue(p, <<"wb_failed", PCA9685_MODE1, loc[p].sleep>>)
    /\ Goto(p, "freq_prescale")
    /\ UNCHANGED <<regs, call, prev, loc, out, ncalls>>

\* line 89, the write failing
pca9685PWMFreq_PrescaleFails(p) ==
    /\ At(p, "freq_prescale")
    /\ CanFail(p)
    /\ Issue(p, <<"wb_failed", PCA9685_PRESCALE, loc[p].prescale>>)
    /\ Goto(p, "freq_wake")
    /\ UNCHANGED <<regs, call, prev, loc, out, ncalls>>

\* line 90, the write failing
pca9685PWMFreq_WakeFails(p) ==
    /\ At(p, "freq_wake")
    /\ CanFail(p)
    /\ Issue(p, <<"wb_failed", PCA9685_MODE1, loc[p].wake>>)
    /\ Goto(p, "freq_usleep")
    /\ UNCHANGED <<regs, call, prev, loc, out, ncalls>>

\* line 94, the write failing, and the return
pca9685PWMFreq_RestartFails(p) ==
    /\ At(p, "freq_restart")
    /\ CanFail(p)
    /\ Issue(p, <<"wb_failed", PCA9685_MODE1, loc[p].restart>>)
    /\ PWMFreqReturn(p)
    /\ UNCHANGED <<regs, call, prev, loc, ncalls>>

\* Caller 1 has entered pca9685Setup or pca9685PWMFreq; any of the call's
\* transactions may fail, MaxFaults of them at most.
InitFail ==
    /\ \E c \in InitChips : regs = InitRegs(c)
    /\ \E freq \in FreqInputs :
          \/ Entered([NoCall EXCEPT !.op = "Setup", !.freq = freq], NoLoc,
                     "setup_read")
          \/ Entered([NoCall EXCEPT !.op = "PWMFreq", !.freq = freq],
                     PWMFreqEntry(NoLoc, freq), "freq_read")

NextFail ==
    \/ pca9685Setup_Read(1)
    \/ pca9685Setup_ReadFails(1)
    \/ pca9685Setup_Write(1)
    \/ pca9685Setup_WriteFails(1)
    \/ pca9685PWMFreq_Read(1)
    \/ pca9685PWMFreq_ReadFails(1)
    \/ pca9685PWMFreq_Sleep(1)
    \/ pca9685PWMFreq_SleepFails(1)
    \/ pca9685PWMFreq_Prescale(1)
    \/ pca9685PWMFreq_PrescaleFails(1)
    \/ pca9685PWMFreq_Wake(1)
    \/ pca9685PWMFreq_WakeFails(1)
    \/ pca9685PWMFreq_Usleep(1)
    \/ pca9685PWMFreq_Restart(1)
    \/ pca9685PWMFreq_RestartFails(1)

SpecFail == InitFail /\ [][NextFail]_vars

(***************************************************************************)
(* Two callers on one handle.  The driver takes no lock, so between two    *)
(* transactions of one caller's pca9685PWMFreq the other caller's may run. *)
(***************************************************************************)
FreqStep(p) ==
    \/ pca9685PWMFreq_Call(p)
    \/ pca9685PWMFreq_Read(p)
    \/ pca9685PWMFreq_Sleep(p)
    \/ pca9685PWMFreq_Prescale(p)
    \/ pca9685PWMFreq_Wake(p)
    \/ pca9685PWMFreq_Usleep(p)
    \/ pca9685PWMFreq_Restart(p)

NextConc == \E p \in Callers : FreqStep(p)

SpecConc == Init /\ [][NextConc]_vars

(***************************************************************************)
(* One call of pca9685PWMFreq with any frequency, a number or a NaN (the   *)
(* fields nan say which; freq is 0 for a NaN): caller 1 has entered the    *)
(* function, and it runs to its return.                                    *)
(***************************************************************************)
MaxFreqIn == 1100

FreqRange == ((-MaxFreqIn) .. MaxFreqIn) \cup {-1000000, 1000000}

InitFreq ==
    /\ \E c \in InitChips : regs = InitRegs(c)
    /\ \/ \E freq \in FreqRange :
             Entered([NoCall EXCEPT !.op = "PWMFreq", !.freq = freq],
                     PWMFreqEntry(NoLoc, freq), "freq_read")
       \/ \E l \in PWMFreqEntryNaN(NoLoc) :
             Entered([NoCall EXCEPT !.op = "PWMFreq", !.nan = TRUE], l,
                     "freq_read")

NextFreq ==
    \/ pca9685PWMFreq_Read(1)
    \/ pca9685PWMFreq_Sleep(1)
    \/ pca9685PWMFreq_Prescale(1)
    \/ pca9685PWMFreq_Wake(1)
    \/ pca9685PWMFreq_Usleep(1)
    \/ pca9685PWMFreq_Restart(1)

SpecFreq == InitFreq /\ [][NextFreq]_vars

(***************************************************************************)
(* Properties.  They read bits and words by arithmetic of their own.       *)
(***************************************************************************)
Bit(v, n) == (v \div (2 ^ n)) % 2

Channels == 0 .. 15

\* The on and off word of channel ch, from the register map of the data sheet.
OnWord(ch) == regs[6 + 4 * ch] + 256 * regs[7 + 4 * ch]

OffWord(ch) == regs[8 + 4 * ch] + 256 * regs[9 + 4 * ch]

\* Caller p has completed a call of op.
Done(p, op) == pc[p] = "idle" /\ call[p].op = op

\* The frequency-setting sequence runs (or has run) in p's call.
SetsFreq(p) ==
    \/ call[p].op = "PWMFreq"
    \/ call[p].op = "Setup" /\ call[p].freq > 0

\* The transactions of p's call that pca9685PWMFreq issued: all of them, or
\* those after the two of pca9685Setup.
FreqBus(p) ==
    IF call[p].op = "Setup" THEN SubSeq(bus[p], 3, Len(bus[p])) ELSE bus[p]

\* The cap to [40, 1000] and the prescale value as the specification states
\* them: p = prescale(c) iff p <= 25000000 / (4096 c) - 1/2 < p + 1.
Clamp(f) == IF f <= 40 THEN 40 ELSE IF f >= 1000 THEN 1000 ELSE f

IsPrescale(v, c) ==
    /\ v * 8192 * c <= 50000000 - 4096 * c
    /\ 50000000 - 4096 * c < (v + 1) * 8192 * c

\* The values p's call wrote to PRESCALE.
PrescaleWrites(p) ==
    {bus[p][i][3] : i \in {j \in 1 .. Len(bus[p]) :
                              /\ bus[p][j][1] = "wb"
                              /\ bus[p][j][2] = 254}}

(* C1: pca9685PWMFreq issues, in this order and with nothing skipped: read
   MODE1, write MODE1 with bit 4 set, write PRESCALE, write MODE1 with bit 4
   clear, usleep(1000), write MODE1 with bit 7 set.  What has been issued is
   always a prefix of that sequence, and all six when the call returns. *)
C1_Order ==
    \A p \in Callers :
        SetsFreq(p) =>
            LET t == FreqBus(p)
                n == Len(t)
            IN /\ n <= 6
               /\ n >= 1 => t[1][1] = "rb" /\ t[1][2] = 0
               /\ n >= 2 => t[2][1] = "wb" /\ t[2][2] = 0 /\ Bit(t[2][3], 4) = 1
               /\ n >= 3 => t[3][1] = "wb" /\ t[3][2] = 254
               /\ n >= 4 => t[4][1] = "wb" /\ t[4][2] = 0 /\ Bit(t[4][3], 4) = 0
               /\ n >= 5 => t[5] = <<"usleep", 1000>>
               /\ n >= 6 => t[6][1] = "wb" /\ t[6][2] = 0 /\ Bit(t[6][3], 7) = 1
               /\ pc[p] = "idle" => n = 6

C1_Witness == Done(1, "PWMFreq") /\ Len(bus[1]) = 6 /\ bus[1][5][1] = "usleep"

(* C2: the frequency pca9685PWMFreq works with is 40 for f <= 40, 1000 for
   f >= 1000 and f itself in between. *)
C2_Clamp ==
    \A p \in Callers :
        SetsFreq(p) /\ Len(FreqBus(p)) >= 1 =>
            loc[p].freq = Clamp(call[p].freq)

C2_Witness ==
    /\ Done(1, "PWMFreq")
    /\ call[1].freq = 1001
    /\ loc[1].freq = 1000

(* C3: the value written to PRESCALE is 25000000 / (4096 * clamp(f)) - 0.5
   rounded down, and it is what the register then holds. *)
C3_Prescale ==
    \A p \in Callers :
        /\ \A v \in PrescaleWrites(p) : IsPrescale(v, Clamp(call[p].freq))
        /\ Done(p, "PWMFreq") =>
              /\ PrescaleWrites(p) # {}
              /\ regs[254] \in PrescaleWrites(p)

C3_Witness == Done(1, "PWMFreq") /\ call[1].freq = 41 /\ regs[254] = 148

(* C4 as stated: at 50 Hz the value written to PRESCALE is 120. *)
C4_Original ==
    \A p \in Callers :
        Clamp(call[p].freq) = 50 => \A v \in PrescaleWrites(p) : v = 120

(* C4, amended: at 50 Hz the value written to PRESCALE is 121. *)
C4_Amended ==
    \A p \in Callers :
        Clamp(call[p].freq) = 50 =>
            /\ \A v \in PrescaleWrites(p) : v = 121
            /\ Done(p, "PWMFreq") => PrescaleWrites(p) # {}

C4_Witness == Done(1, "PWMFreq") /\ call[1].freq = 50 /\ regs[254] = 121

(* C5 as stated: pca9685Setup writes to MODE1 the value it read with bit 5
   set and every other bit as read. *)
C5_Original ==
    \A p \in Callers :
        call[p].op = "Setup" /\ Len(bus[p]) >= 2 =>
            /\ bus[p][2][1] = "wb" /\ bus[p][2][2] = 0
            /\ Bit(bus[p][2][3], 5) = 1
            /\ \A i \in (0 .. 7) \ {5} :
                  Bit(bus[p][2][3], i) = Bit(bus[p][1][3], i)

(* C5, amended: pca9685Setup writes to MODE1 the value it read with bit 5
   set and bit 7 (restart) cleared; bits 0-4 and 6 are as read. *)
C5_Amended ==
    \A p \in Callers :
        call[p].op = "Setup" /\ Len(bus[p]) >= 2 =>
            /\ bus[p][1][1] = "rb" /\ bus[p][1][2] = 0
            /\ bus[p][2][1] = "wb" /\ bus[p][2][2] = 0
            /\ Bit(bus[p][2][3], 5) = 1
            /\ Bit(bus[p][2][3], 7) = 0
            /\ \A i \in (0 .. 7) \ {5, 7} :
                  Bit(bus[p][2][3], i) = Bit(bus[p][1][3], i)
            /\ bus[p][2][3] \in 0 .. 255

C5_Witness ==
    /\ call[1].op = "Setup"
    /\ Len(bus[1]) = 2
    /\ bus[1][1][3] = 206
    /\ regs[0] = 110

(* C6: pca9685Setup with freq <= 0 writes nothing to PRESCALE and leaves
   bit 4 (sleep) of MODE1 as it found it; with freq > 0 it runs the whole
   frequency-setting sequence after its own write, and on return PRESCALE
   holds the prescale value of the capped frequency, bit 4 of MODE1 is
   clear and bit 5 (auto-increment) is set. *)
C6_Setup ==
    \A p \in Callers :
        call[p].op = "Setup" =>
            /\ call[p].freq <= 0 =>
                  /\ PrescaleWrites(p) = {}
                  /\ Len(bus[p]) >= 1 => Bit(regs[0], 4) = Bit(bus[p][1][3], 4)
                  /\ pc[p] = "idle" => Len(bus[p]) = 2 /\ out[p].ret = <<1>>
            /\ call[p].freq > 0 /\ pc[p] = "idle" =>
                  /\ Len(bus[p]) = 8
                  /\ bus[p][2][1] = "wb" /\ bus[p][2][2] = 0
                  /\ Bit(bus[p][2][3], 5) = 1
                  /\ IsPrescale(regs[254], Clamp(call[p].freq))
                  /\ Bit(regs[0], 4) = 0
                  /\ Bit(regs[0], 5) = 1
                  /\ out[p].ret = <<1>>

\* pca9685Setup(handle, 0) has returned on a chip that was asleep
C6_Witness ==
    /\ Done(1, "Setup")
    /\ call[1].freq = 0
    /\ Len(bus[1]) = 2
    /\ Bit(regs[0], 4) = 1

(* C7: for a channel 0..15, pca9685PWMRead after pca9685PWMWrite(on, off)
   yields on & 0xFFF and off & 0xFFF (the values modulo 4096), so bit 12 of
   both words is 0 whatever the flags were before. *)
C7_WriteRead ==
    \A p \in Callers :
        /\ Done(p, "PWMRead")
        /\ prev[p].op = "PWMWrite"
        /\ prev[p].pin = call[p].pin
        /\ call[p].pin \in Channels
        => /\ call[p].wantOn =>
                 /\ out[p].on = <<prev[p].on % 4096>>
                 /\ Bit(out[p].on[1], 12) = 0
           /\ call[p].wantOff =>
                 /\ out[p].off = <<prev[p].off % 4096>>
                 /\ Bit(out[p].off[1], 12) = 0

\* on = -1 and off = 0x1000 written to channel 15 and read back
C7_Witness ==
    /\ Done(1, "PWMRead")
    /\ prev[1].op = "PWMWrite" /\ prev[1].pin = 15 /\ call[1].pin = 15
    /\ prev[1].on = -1 /\ prev[1].off = 4096
    /\ out[1].on = <<4095>> /\ out[1].off = <<0>>

(* C8: for a channel 0..15 and whatever the flags were, pca9685PWMRead
   after pca9685FullOn(ch, true) shows bit 12 of the on word set and bit 12
   of the off word clear. *)
C8_FullOn ==
    \A p \in Callers :
        /\ Done(p, "PWMRead")
        /\ prev[p].op = "FullOn" /\ prev[p].tf # 0
        /\ prev[p].pin = call[p].pin
        /\ call[p].pin \in Channels
        => /\ call[p].wantOn => Bit(out[p].on[1], 12) = 1
           /\ call[p].wantOff => Bit(out[p].off[1], 12) = 0

\* the channel held on = 0x1FFF, off = 0x1ABC (both flags set) before
C8_Witness ==
    /\ Done(1, "PWMRead")
    /\ prev[1].op = "FullOn" /\ prev[1].tf = 1
    /\ prev[1].pin = 0 /\ call[1].pin = 0
    /\ out[1].on = <<8191>> /\ out[1].off = <<2748>>

(* C9: the two overrides do not commute.  For a channel 0..15,
   pca9685FullOff(ch, true) then pca9685FullOn(ch, true) ends with full-on
   set and full-off clear, the output forced on; pca9685FullOn(ch, true)
   then pca9685FullOff(ch, true) ends with both flags set, the output off. *)
C9_Order ==
    \A p \in Callers :
        /\ pc[p] = "idle"
        /\ call[p].pin \in Channels
        /\ prev[p].pin = call[p].pin
        /\ call[p].tf # 0 /\ prev[p].tf # 0
        => /\ call[p].op = "FullOn" /\ prev[p].op = "FullOff" =>
                 /\ Bit(OnWord(call[p].pin), 12) = 1
                 /\ Bit(OffWord(call[p].pin), 12) = 0
                 /\ EffectiveOutput(regs, call[p].pin) = "on"
           /\ call[p].op = "FullOff" /\ prev[p].op = "FullOn" =>
                 /\ Bit(OnWord(call[p].pin), 12) = 1
                 /\ Bit(OffWord(call[p].pin), 12) = 1
                 /\ EffectiveOutput(regs, call[p].pin) = "off"

\* full-on, then full-off: both flags set
C9_Witness ==
    /\ Done(1, "FullOff") /\ call[1].tf = 1 /\ call[1].pin = 15
    /\ prev[1].op = "FullOn" /\ prev[1].tf = 1 /\ prev[1].pin = 15
    /\ Bit(OnWord(15), 12) = 1 /\ Bit(OffWord(15), 12) = 1

(* C10: pca9685PWMReset writes 0 to the ALL_LED on word and 0x1000 to the
   ALL_LED off word; whatever the chip held, every channel 0..15 then holds
   and reads back on = 0 and off = 0x1000. *)
C10_Reset ==
    \A p \in Callers :
        /\ Done(p, "PWMReset") =>
              /\ bus[p] = <<<<"ww", 250, 0>>, <<"ww", 252, 4096>>>>
              /\ \A ch \in Channels : OnWord(ch) = 0 /\ OffWord(ch) = 4096
        /\ /\ Done(p, "PWMRead")
           /\ prev[p].op = "PWMReset"
           /\ call[p].pin \in Channels
           => /\ call[p].wantOn => out[p].on = <<0>>
              /\ call[p].wantOff => out[p].off = <<4096>>

\* a reset of a chip with every channel full on, then channel 15 read
C10_Witness ==
    /\ Done(1, "PWMRead") /\ call[1].pin = 15
    /\ prev[1].op = "PWMReset"
    /\ out[1].on = <<0>> /\ out[1].off = <<4096>>

\* The first register of pin's block, from the register map of the data
\* sheet: LEDn_ON_L = 0x06 + 4 n, ALL_LED_ON_L = 0xFA.
BlockBase(pin) == IF pin = 16 THEN 250 ELSE 6 + 4 * pin

\* The registers call c addresses, in order, counted from the block base b.
AddressedRegs(c, b) ==
    IF c.op = "PWMWrite" THEN <<b, b + 2>>
    ELSE IF c.op = "PWMRead"
         THEN (IF c.wantOn THEN <<b>> ELSE <<>>)
              \o (IF c.wantOff THEN <<b + 2>> ELSE <<>>)
    ELSE IF c.op = "FullOn"
         THEN (IF c.tf # 0 THEN <<b + 1, b + 1, b + 3, b + 3>>
               ELSE <<b + 1, b + 1>>)
    ELSE IF c.op = "FullOff" THEN <<b + 3, b + 3>>
    ELSE <<>>

TakesPin(c) == c.op \in {"PWMWrite", "PWMRead", "FullOn", "FullOff"}

(* C11: every function that takes a pin works on the block at 0x06 + 4 N
   for pin N in 0..15 and at 0xFA for pin 16 (never 0x46): the on word at
   the base, the off word at base + 2, the on high byte at base + 1 and the
   off high byte at base + 3.  The registers a call has addressed are always
   a prefix of that list, and all of it when the call returns. *)
C11_BaseReg ==
    \A p \in Callers :
        TakesPin(call[p]) /\ call[p].pin \in 0 .. 16 =>
            LET want == AddressedRegs(call[p], BlockBase(call[p].pin))
                n == Len(bus[p])
            IN /\ n <= Len(want)
               /\ \A i \in 1 .. n : bus[p][i][2] = want[i]
               /\ \A i \in 1 .. n : bus[p][i][2] # 70
               /\ pc[p] = "idle" => n = Len(want)

\* pca9685FullOn(fd, 16, 1) has returned: 0xFB twice, then 0xFD twice
C11_Witness ==
    /\ Done(1, "FullOn") /\ call[1].pin = 16 /\ call[1].tf = 1
    /\ Len(bus[1]) = 4
    /\ bus[1][1][2] = 251 /\ bus[1][4][2] = 253

(* C12: a transport failure surfaces: when a read or write issued during
   pca9685Setup (the frequency-setting sequence included) has failed,
   pca9685Setup does not return its success value 1. *)
C12_Surfaces ==
    \A p \in Callers :
        Done(p, "Setup") /\ Faults(p) > 0 => out[p].ret # <<1>>

(* C13: when pca9685PWMFreq returns after its write of the sleep value
   succeeded and its write to PRESCALE failed, bit 4 (sleep) of MODE1 is
   set. *)
C13_LeftAsleep ==
    \A p \in Callers :
        /\ pc[p] = "idle"
        /\ SetsFreq(p)
        /\ Len(FreqBus(p)) >= 3
        /\ FreqBus(p)[2][1] = "wb"
        /\ FreqBus(p)[3] = <<"wb_failed", 254, loc[p].prescale>>
        => Bit(regs[0], 4) = 1

(* C14: the driver takes no lock.  With two callers in pca9685PWMFreq on
   the same handle the transactions interleave: a caller's write to
   PRESCALE is its next transaction whenever it has written the sleep
   value, whatever the other caller does, and when it finds bit 4 (sleep)
   of MODE1 clear at that point, the other caller has written its wake
   value in between. *)
C14_Interleave ==
    \A p \in Callers :
        pc[p] = "freq_prescale" =>
            /\ ENABLED pca9685PWMFreq_Prescale(p)
            /\ Bit(regs[0], 4) = 0 =>
                  \E q \in Callers \ {p} :
                      \/ /\ call[q].op = "PWMFreq"
                         /\ Len(bus[q]) >= 4
                         /\ bus[q][4][1] = "wb" /\ bus[q][4][2] = 0
                         /\ Bit(bus[q][4][3], 4) = 0
                      \/ prev[q].op = "PWMFreq"

\* caller 1 is about to write PRESCALE, and caller 2, past its wake write,
\* has cleared the sleep bit that caller 1 had set
C14_Witness ==
    /\ pc[1] = "freq_prescale"
    /\ Bit(bus[1][2][3], 4) = 1
    /\ pc[2] = "freq_usleep"
    /\ Bit(regs[0], 4) = 0
    /\ ENABLED pca9685PWMFreq_Prescale(1)

\* Transaction t is a byte write to register reg that went through.
WritesTo(t, reg) == t[1] = "wb" /\ t[2] = reg

(* C15: with one caller and no transport failure, every write to PRESCALE
   in pca9685Setup and pca9685PWMFreq is made while bit 4 (sleep) of MODE1
   is set: the call's last write to MODE1 before it had bit 4 set, and the
   register has it set when the write is due. *)
C15_AsleepAtPrescale ==
    \A p \in Callers :
        /\ pc[p] = "freq_prescale" => Bit(regs[0], 4) = 1
        /\ \A i \in 1 .. Len(bus[p]) :
              WritesTo(bus[p][i], 254) =>
                  \E j \in 1 .. (i - 1) :
                      /\ WritesTo(bus[p][j], 0)
                      /\ Bit(bus[p][j][3], 4) = 1
                      /\ \A k \in (j + 1) .. (i - 1) : ~WritesTo(bus[p][k], 0)

\* pca9685Setup has written PRESCALE on a chip that was awake (MODE1 = 0xA1)
C15_Witness ==
    /\ call[1].op = "Setup"
    /\ pc[1] = "freq_wake"
    /\ bus[1][1][3] = 161
    /\ WritesTo(bus[1][5], 254)

\* v is m with bit 7 equal to b7, bit 4 equal to b4 and the other bits kept.
SameBut(v, m, b7, b4) ==
    /\ v \in 0 .. 255
    /\ Bit(v, 7) = b7
    /\ Bit(v, 4) = b4
    /\ \A i \in {0, 1, 2, 3, 5, 6} : Bit(v, i) = Bit(m, i)

(* C16: pca9685PWMFreq changes bits 4 and 7 of MODE1 only.  With m the
   value it read, it writes m with bit 7 clear and bit 4 set, then m with
   bits 7 and 4 clear, then m with bit 4 clear and bit 7 set; bits 0-3, 5
   and 6 of each are those of m, and MODE1 holds the third on return. *)
C16_Mode1Bits ==
    \A p \in Callers :
        SetsFreq(p) =>
            LET t == FreqBus(p)
                n == Len(t)
            IN /\ n >= 2 => SameBut(t[2][3], t[1][3], 0, 1)
               /\ n >= 4 => SameBut(t[4][3], t[1][3], 0, 0)
               /\ n >= 6 => SameBut(t[6][3], t[1][3], 1, 0)
               /\ n >= 6 /\ pc[p] = "idle" => regs[0] = t[6][3]
               /\ n >= 6 /\ call[p].op = "Setup" => Bit(t[6][3], 5) = 1

\* from MODE1 = 0xCE (bits 7, 6, 3, 2, 1): 0x5E, 0x4E, 0xCE
C16_Witness ==
    /\ Done(1, "PWMFreq")
    /\ bus[1][1][3] = 206
    /\ bus[1][2][3] = 94 /\ bus[1][4][3] = 78 /\ bus[1][6][3] = 206

\* The word at registers a and a + 1 of register file r.
WordAt(r, a) == r[a] + 256 * r[a + 1]

\* Register files r and s differ at most in bit 4 of the bytes at `bytes`.
OnlyBit4(r, s, bytes) ==
    \A x \in DOMAIN r :
        r[x] # s[x] =>
            /\ x \in bytes
            /\ \A i \in (0 .. 7) \ {4} : Bit(r[x], i) = Bit(s[x], i)

(* C17: for a channel 0..15, no step of pca9685FullOn or pca9685FullOff
   changes the channel's 12-bit on and off ticks: only bit 4 of the high
   byte the function addresses may change.  pca9685FullOff changes the
   on high byte (the full-on flag) in no case, and pca9685FullOn(ch, false)
   leaves the off high byte (the full-off flag) as it was. *)
C17_Frame ==
    [][\A p \in Callers :
          LET c == call'[p]
              b == 6 + 4 * c.pin
          IN c.op \in {"FullOn", "FullOff"} /\ c.pin \in Channels =>
                /\ WordAt(regs', b) % 4096 = WordAt(regs, b) % 4096
                /\ WordAt(regs', b + 2) % 4096 = WordAt(regs, b + 2) % 4096
                /\ c.op = "FullOff" =>
                      /\ Bit(WordAt(regs', b), 12) = Bit(WordAt(regs, b), 12)
                      /\ OnlyBit4(regs, regs', {b + 3})
                /\ c.op = "FullOn" /\ c.tf = 0 =>
                      /\ Bit(WordAt(regs', b + 2), 12)
                            = Bit(WordAt(regs, b + 2), 12)
                      /\ OnlyBit4(regs, regs', {b + 1})
                /\ c.op = "FullOn" => OnlyBit4(regs, regs', {b + 1, b + 3})
    ]_vars

\* pca9685FullOn(fd, 15, 0) on a channel holding 0x1FFF / 0x1ABC: the on
\* word is 0x0FFF, the off word and channel 0 are as they were
C17_Witness ==
    /\ Done(1, "FullOn") /\ call[1].tf = 0 /\ call[1].pin = 15
    /\ OnWord(15) = 4095 /\ OffWord(15) = 6844
    /\ OnWord(0) = 8191

\* The registers transaction t addresses.
Touched(t) ==
    IF t[1] \in {"rw", "ww"} THEN {t[2], t[2] + 1}
    ELSE IF t[1] \in {"rb", "wb"} THEN {t[2]}
    ELSE {}

(* C18: for every pin 0..16, pca9685PWMWrite, pca9685PWMRead, pca9685FullOn,
   pca9685FullOff and pca9685PWMReset address registers in 0x06..0x45 and
   0xFA..0xFD only and leave MODE1 and PRESCALE as they are; and for
   channels a # b in 0..15, no step of PWMWrite, FullOn or FullOff on a
   changes the on or off word of b, which is what PWMRead yields for b. *)
C18_Isolation ==
    [][\A p \in Callers :
          LET c == call'[p]
          IN TakesPin(c) \/ c.op = "PWMReset" =>
                /\ \A i \in 1 .. Len(bus'[p]) :
                      Touched(bus'[p][i]) \subseteq ((6 .. 69) \cup (250 .. 253))
                /\ regs'[0] = regs[0]
                /\ regs'[254] = regs[254]
                /\ c.op \in {"PWMWrite", "FullOn", "FullOff"} /\ c.pin \in Channels =>
                      \A ch \in Channels \ {c.pin} :
                          /\ WordAt(regs', 6 + 4 * ch) = WordAt(regs, 6 + 4 * ch)
                          /\ WordAt(regs', 8 + 4 * ch) = WordAt(regs, 8 + 4 * ch)
                          /\ i2cReadWordData(regs', baseReg(ch))
                                = i2cReadWordData(regs, baseReg(ch))
                          /\ i2cReadWordData(regs', baseReg(ch) + 2)
                                = i2cReadWordData(regs, baseReg(ch) + 2)
    ]_vars

\* pca9685PWMWrite(fd, 14, 0x1234, 0x1FFF) on a chip holding 0x1FFF / 0x1ABC
\* everywhere: channels 13 and 15 are as they were
C18_Witness ==
    /\ Done(1, "PWMWrite") /\ call[1].pin = 14
    /\ OnWord(14) = 564 /\ OffWord(14) = 4095
    /\ OnWord(15) = 8191 /\ OffWord(13) = 6844
    /\ regs[0] = 206

(* C19: whatever frequency is requested (zero, negative and very large
   values included), the value pca9685PWMFreq writes to PRESCALE lies in
   5..152, so it fits the 8-bit register as it is. *)
C19_PrescaleRange ==
    \A p \in Callers :
        /\ \A v \in PrescaleWrites(p) : v \in 5 .. 152
        /\ Done(p, "PWMFreq") => regs[254] \in 5 .. 152

\* The same of the requests that are numbers.
C19_Numbers ==
    \A p \in Callers :
        ~call[p].nan =>
            /\ \A v \in PrescaleWrites(p) : v \in 5 .. 152
            /\ Done(p, "PWMFreq") => regs[254] \in 5 .. 152

\* p is in a call of pca9685PWMFreq that follows its call of pca9685PWMFreq
\* with the same frequency.
Repeats(p) ==
    /\ call[p].op = "PWMFreq" /\ prev[p].op = "PWMFreq"
    /\ call[p].freq = prev[p].freq
    /\ call[p].nan = prev[p].nan

(* C20: with one caller and no failing transaction, a second
   pca9685PWMFreq(f) right after the first leaves MODE1 and PRESCALE as the
   first left them: no step of the second call changes PRESCALE, and its
   last step leaves in MODE1 the value the call read at its start. *)
C20_Idempotent ==
    [][\A p \in Callers :
          Repeats(p) /\ pc[p] # "idle" =>
              /\ regs'[254] = regs[254]
              /\ pc'[p] = "idle" => regs'[0] = bus[p][1][3]]_vars

\* pca9685PWMFreq(fd, 50) has run twice on a chip that was asleep.
C20_Witness ==
    /\ Repeats(1) /\ Done(1, "PWMFreq")
    /\ call[1].freq = 50
    /\ regs[254] = 121
    /\ regs[0] = bus[1][1][3]
    /\ Bit(regs[0], 4) = 0

====
